---- MODULE Spec2Model ----
(***************************************************************************)
(* Model of conscious-data/search (src/src/main.rs): a command-line        *)
(* launcher that formats a query, optionally with clipboard content, and   *)
(* opens the browser on a provider URL carrying the percent-encoded        *)
(* payload.                                                                *)
(*                                                                         *)
(* Text is modelled as Rust holds it: a String is its sequence of UTF-8    *)
(* bytes (naturals below 256).  Provider names, file paths and error       *)
(* messages are only compared or passed on by the program and are kept as  *)
(* TLA+ strings.                                                           *)
(***************************************************************************)
EXTENDS Integers, Sequences, FiniteSets, TLC

VARIABLES
    args,       \* the parsed Args: clipboard, context, provider, prompt
    pc,         \* position of the run inside main (or of a single call)
    content,    \* main's `content`
    input,      \* the text main hands to run_search (`formatted` / `query`)
    url,        \* run_search's `url`
    err,        \* the error main returned, if any
    log         \* the collaborator operations performed so far, in order: what
                \* was invoked (op, argv), how it ended (status), what it gave (out)

vars == <<args, pc, content, input, url, err, log>>

---------------------------------------------------------------------------
(* Bounds of the model *)

MaxFrags == 2
MaxTokens == 2
MaxPayloadLen == 2

---------------------------------------------------------------------------
(* Text helpers *)

\* "```"
Backticks3 == <<96, 96, 96>>
\* "<paste>\n"
PasteOpen == <<60, 112, 97, 115, 116, 101, 62, 10>>
\* "\n</paste>"
PasteClose == <<10, 60, 47, 112, 97, 115, 116, 101, 62>>
\* "```paste\n"
FenceOpen == <<96, 96, 96, 112, 97, 115, 116, 101, 10>>
\* "\n```"
FenceClose == <<10, 96, 96, 96>>
\* "\n" and " "
Newline == <<10>>
Space == <<32>>

\* str::contains: pat occurs in s as a contiguous run of bytes
Contains(s, pat) ==
    \E i \in 1..(Len(s) - Len(pat) + 1) : SubSeq(s, i, i + Len(pat) - 1) = pat

\* [String]::join(sep)
RECURSIVE Join(_, _)
Join(tokens, sep) ==
    IF tokens = <<>> THEN <<>>
    ELSE IF Len(tokens) = 1 THEN tokens[1]
    ELSE tokens[1] \o sep \o Join(Tail(tokens), sep)

\* Option<T>
None == [some |-> FALSE]
Some(v) == [some |-> TRUE, value |-> v]

\* anyhow::Error: the message and, where the message is formatted, its argument
Error(msg, arg) == [msg |-> msg, arg |-> arg]

---------------------------------------------------------------------------
(* format_content *)

\* faulty variant: no look for three backticks, the fence is always used
format_content_always_fence(c, query) ==
    LET formatted == FenceOpen \o c \o FenceClose
    IN  IF query # <<>> THEN formatted \o Newline \o Join(query, Space)
        ELSE formatted

\* faulty variant: the query follows a space instead of a newline
format_content_space_separator(c, query) ==
    LET formatted == IF Contains(c, Backticks3)
                     THEN PasteOpen \o c \o PasteClose
                     ELSE FenceOpen \o c \o FenceClose
    IN  IF query # <<>> THEN formatted \o Space \o Join(query, Space)
        ELSE formatted

\* format_content(content, query)
format_content(c, query) ==
    LET formatted == IF Contains(c, Backticks3)
                     THEN PasteOpen \o c \o PasteClose
                     ELSE FenceOpen \o c \o FenceClose
    IN  IF query # <<>> THEN formatted \o Newline \o Join(query, Space)
        ELSE formatted

---------------------------------------------------------------------------
(* get_provider_url *)

\* Result<T>
Ok(v) == [ok |-> TRUE, value |-> v]
Err(e) == [ok |-> FALSE, error |-> e]

\* the NON_ALPHANUMERIC set leaves only 0-9, A-Z and a-z unescaped
IsAsciiAlphanumeric(b) == b \in (48..57) \cup (65..90) \cup (97..122)

\* one upper-case hexadecimal digit, as a byte
HexDigit(n) == IF n < 10 THEN 48 + n ELSE 55 + n

\* "%XX" for one byte
percent_encode_byte(b) == <<37, HexDigit(b \div 16), HexDigit(b % 16)>>

\* faulty variant: an encode set that leaves "%" as it is
escapes_byte_keep_percent(b) == ~IsAsciiAlphanumeric(b) /\ b # 37

\* whether the encode set escapes byte b
escapes_byte(b) == ~IsAsciiAlphanumeric(b)

\* utf8_percent_encode(query, NON_ALPHANUMERIC).to_string()
RECURSIVE utf8_percent_encode(_)
utf8_percent_encode(s) ==
    IF s = <<>> THEN <<>>
    ELSE (IF escapes_byte(Head(s)) THEN percent_encode_byte(Head(s))
          ELSE <<Head(s)>>) \o utf8_percent_encode(Tail(s))

\* "https://claude.ai/new?q="
ClaudeUrl == <<104, 116, 116, 112, 115, 58, 47, 47, 99, 108, 97, 117, 100, 101,
               46, 97, 105, 47, 110, 101, 119, 63, 113, 61>>
\* "https://chatgpt.com/?q="
ChatgptUrl == <<104, 116, 116, 112, 115, 58, 47, 47, 99, 104, 97, 116, 103, 112,
                116, 46, 99, 111, 109, 47, 63, 113, 61>>

\* faulty variant: the last arm of the match takes every other name
get_provider_url_default_arm(provider, query) ==
    LET encoded_query == utf8_percent_encode(query)
    IN  IF provider = "claude" THEN Ok(ClaudeUrl \o encoded_query)
        ELSE Ok(ChatgptUrl \o encoded_query)

\* get_provider_url(provider, query)
get_provider_url(provider, query) ==
    LET encoded_query == utf8_percent_encode(query)
    IN  CASE provider = "claude" -> Ok(ClaudeUrl \o encoded_query)
          [] provider = "chatgpt" -> Ok(ChatgptUrl \o encoded_query)
          [] OTHER -> Err(Error("Unsupported provider: ", provider))

---------------------------------------------------------------------------
(* run_contextualize *)

\* U+FFFD REPLACEMENT CHARACTER in UTF-8
Replacement == <<239, 191, 189>>

ByteAt(s, i) == IF i <= Len(s) THEN s[i] ELSE -1
IsContinuation(b) == b \in 128..191

\* the chunk of s that starts at i: whether it is a well-formed scalar value, and
\* its length (for an ill-formed chunk, the maximal ill-formed prefix)
Utf8Chunk(s, i) ==
    LET b1 == s[i]
        b2 == ByteAt(s, i + 1)
        b3 == ByteAt(s, i + 2)
        b4 == ByteAt(s, i + 3)
        good(n) == [valid |-> TRUE, len |-> n]
        bad(n) == [valid |-> FALSE, len |-> n]
        second3 == \/ b1 = 224 /\ b2 \in 160..191
                   \/ b1 \in (225..236) \cup (238..239) /\ IsContinuation(b2)
                   \/ b1 = 237 /\ b2 \in 128..159
        second4 == \/ b1 = 240 /\ b2 \in 144..191
                   \/ b1 \in 241..243 /\ IsContinuation(b2)
                   \/ b1 = 244 /\ b2 \in 128..143
    IN  IF b1 < 128 THEN good(1)
        ELSE IF b1 \in 194..223
             THEN IF IsContinuation(b2) THEN good(2) ELSE bad(1)
        ELSE IF b1 \in 224..239
             THEN IF ~second3 THEN bad(1)
                  ELSE IF ~IsContinuation(b3) THEN bad(2) ELSE good(3)
        ELSE IF b1 \in 240..244
             THEN IF ~second4 THEN bad(1)
                  ELSE IF ~IsContinuation(b3) THEN bad(2)
                  ELSE IF ~IsContinuation(b4) THEN bad(3) ELSE good(4)
        ELSE bad(1)

RECURSIVE LossyFrom(_, _)
LossyFrom(s, i) ==
    IF i > Len(s) THEN <<>>
    ELSE LET ch == Utf8Chunk(s, i)
         IN  (IF ch.valid THEN SubSeq(s, i, i + ch.len - 1) ELSE Replacement)
             \o LossyFrom(s, i + ch.len)

\* String::from_utf8_lossy
from_utf8_lossy(s) == LossyFrom(s, 1)

\* the argument vector of the subprocess
contextualize_argv(files) == <<"contextualize", "cat", "--output", "clipboard">> \o files

\* how the subprocess ended: never started, exit status zero, or non-zero
process_status(output) ==
    IF ~output.spawned THEN "not_started"
    ELSE IF output.success THEN "ok" ELSE "failed"

\* faulty variant: the exit status of the subprocess is not looked at
run_contextualize_ignore_status(output) ==
    IF ~output.spawned
    THEN Err(Error("Failed to run contextualize command", <<>>))
    ELSE Ok(<<>>)

\* the result of run_contextualize, given what Command::output() produced
run_contextualize(output) ==
    IF ~output.spawned
    THEN Err(Error("Failed to run contextualize command", <<>>))
    ELSE IF ~output.success
    THEN Err(Error("contextualize command failed: ", from_utf8_lossy(output.stderr)))
    ELSE Ok(<<>>)

---------------------------------------------------------------------------
(* get_clipboard_content *)

\* the access strategies the read goes through, in order
clipboard_strategies == <<"native">>

\* the result of get_clipboard_content, given what the native clipboard did
get_clipboard_content(clip) ==
    IF ~clip.initialized THEN Err(Error("Failed to initialize clipboard", <<>>))
    ELSE IF ~clip.text.some THEN Err(Error("Failed to get clipboard content", <<>>))
    ELSE Ok(clip.text.value)

---------------------------------------------------------------------------
(* main *)

\* faulty variant: the flags are not checked
flags_conflict_never(a) == FALSE

\* the check that opens main
flags_conflict(a) == a.clipboard /\ a.context.some

\* faulty variant: the result of webbrowser::open is dropped
open_result_ignored(opened) == Ok(<<>>)

\* webbrowser::open(&url).context("Failed to open browser")
open_result(opened) ==
    IF opened THEN Ok(<<>>) ELSE Err(Error("Failed to open browser", <<>>))

\* the text main hands to run_search
search_input(c, prompt) ==
    IF c # <<>> THEN format_content(c, prompt) ELSE Join(prompt, Space)

---------------------------------------------------------------------------
(* Input domains *)

\* pieces of clipboard text: "`", "```", "</paste>", "a", "\n", " ", "   \n"
ContentFragments ==
    { <<96>>, <<96, 96, 96>>, <<60, 47, 112, 97, 115, 116, 101, 62>>,
      <<97>>, <<10>>, <<32>>, <<32, 32, 32, 10>> }

RECURSIVE Concats(_, _)
Concats(frags, n) ==
    IF n = 0 THEN { <<>> }
    ELSE LET shorter == Concats(frags, n - 1)
         IN  shorter \cup { s \o f : s \in shorter, f \in frags }

Contents == Concats(ContentFragments, MaxFrags)

\* prompt tokens: "", "q", "a b", "\nq"
PromptTokens == { <<>>, <<113>>, <<97, 32, 98>>, <<10, 113>> }

RECURSIVE SeqsUpTo(_, _)
SeqsUpTo(S, n) ==
    IF n = 0 THEN { <<>> }
    ELSE LET shorter == SeqsUpTo(S, n - 1)
         IN  shorter \cup { Append(s, x) : s \in shorter, x \in S }

Prompts == SeqsUpTo(PromptTokens, MaxTokens)

Providers == { "claude", "chatgpt", "Claude", "CHATGPT", "unknown", "" }

\* payload characters as UTF-8: the alphanumeric ranges' ends and their
\* neighbours, reserved URL characters, whitespace, and non-ASCII text
\* "0" "9" "A" "Z" "a" "z" "/" ":" "@" "[" "`" "{" "&" "=" "#" "?" "%" " " "\n"
\* "e-acute" and the euro sign
PayloadChars ==
    { <<48>>, <<57>>, <<65>>, <<90>>, <<97>>, <<122>>,
      <<47>>, <<58>>, <<64>>, <<91>>, <<96>>, <<123>>,
      <<38>>, <<61>>, <<35>>, <<63>>, <<37>>, <<32>>, <<10>>,
      <<195, 169>>, <<226, 130, 172>> }

Payloads == Concats(PayloadChars, MaxPayloadLen)

\* --context values: clap yields at least one path
ContextArgs == { <<"main.py">>, <<"main.py", "lib.rs">> }

ArgsSet ==
    [clipboard : BOOLEAN,
     context : {None} \cup { Some(f) : f \in ContextArgs },
     provider : Providers,
     prompt : Prompts]

\* what the clipboard may hold: "", "   \n", "a", "```", "</paste>",
\* "```</paste>", "a\n`` `", e-acute
ClipboardTexts ==
    { <<>>, <<32, 32, 32, 10>>, <<97>>, <<96, 96, 96>>,
      <<60, 47, 112, 97, 115, 116, 101, 62>>,
      <<96, 96, 96, 60, 47, 112, 97, 115, 116, 101, 62>>,
      <<97, 10, 96, 96, 32, 96>>, <<195, 169>> }

\* what the native clipboard may do: fail to initialise, fail to give text,
\* or give text
ClipboardOutcomes ==
    { [initialized |-> FALSE, text |-> None], [initialized |-> TRUE, text |-> None] }
    \cup { [initialized |-> TRUE, text |-> Some(t)] : t \in ClipboardTexts }

\* stderr of the subprocess: "", "err", "e" e-acute, the euro sign, and
\* ill-formed UTF-8 (a stray 0xFF, truncated sequences, a surrogate)
Stderrs ==
    { <<>>, <<101, 114, 114>>, <<101, 195, 169>>, <<226, 130, 172>>,
      <<255>>, <<101, 255, 101>>, <<195>>, <<226, 130>>, <<237, 160, 128>> }

\* what Command::output() may produce
ProcessOutputs ==
    { [spawned |-> FALSE, success |-> FALSE, stderr |-> <<>>] }
    \cup [spawned : {TRUE}, success : BOOLEAN, stderr : Stderrs]

---------------------------------------------------------------------------
(* One run of main *)

NoArgs == [clipboard |-> FALSE, context |-> None, provider |-> "", prompt |-> <<>>]

Init ==
    /\ pc = "main"
    /\ args \in ArgsSet
    /\ content = <<>>
    /\ input = None
    /\ url = None
    /\ err = None
    /\ log = <<>>

Fail(e) ==
    /\ pc' = "error"
    /\ err' = Some(e)

\* main: the flags are checked first
CheckFlags ==
    /\ pc = "main"
    /\ IF flags_conflict(args)
       THEN Fail(Error("--clipboard and --context flags are not compatible", <<>>))
       ELSE pc' = "acquire" /\ UNCHANGED err
    /\ UNCHANGED <<args, content, input, url, log>>

\* main, --context given: run_contextualize(&files)?
RunContextualize ==
    /\ pc = "acquire"
    /\ args.context.some
    /\ \E output \in ProcessOutputs :
         LET r == run_contextualize(output)
         IN  /\ log' = Append(log, [op |-> "contextualize",
                                    argv |-> contextualize_argv(args.context.value),
                                    status |-> process_status(output),
                                    out |-> output.stderr])
             /\ IF r.ok THEN pc' = "get_clipboard" /\ UNCHANGED err
                ELSE Fail(r.error)
    /\ UNCHANGED <<args, content, input, url>>

\* main: get_clipboard_content()?, after the subprocess or for --clipboard
GetClipboardContent ==
    /\ \/ pc = "get_clipboard"
       \/ pc = "acquire" /\ ~args.context.some /\ args.clipboard
    /\ \E clip \in ClipboardOutcomes :
         LET r == get_clipboard_content(clip)
         IN  /\ log' = log \o [i \in 1..Len(clipboard_strategies) |->
                                 [op |-> "clipboard",
                                  argv |-> <<clipboard_strategies[i]>>,
                                  status |-> IF r.ok THEN "ok" ELSE "failed",
                                  out |-> IF r.ok THEN r.value ELSE <<>>]]
             /\ IF r.ok THEN content' = r.value /\ pc' = "format" /\ UNCHANGED err
                ELSE Fail(r.error) /\ UNCHANGED content
    /\ UNCHANGED <<args, input, url>>

\* main, neither flag: String::new()
NoContent ==
    /\ pc = "acquire"
    /\ ~args.context.some
    /\ ~args.clipboard
    /\ content' = <<>>
    /\ pc' = "format"
    /\ UNCHANGED <<args, input, url, err, log>>

\* main: format_content for a non-empty content, the joined prompt otherwise
Format ==
    /\ pc = "format"
    /\ input' = Some(search_input(content, args.prompt))
    /\ pc' = "run_search"
    /\ UNCHANGED <<args, content, url, err, log>>

\* run_search: get_provider_url(provider, input)?
ResolveUrl ==
    /\ pc = "run_search"
    /\ LET r == get_provider_url(args.provider, input.value)
       IN  IF r.ok THEN url' = Some(r.value) /\ pc' = "open" /\ UNCHANGED err
           ELSE Fail(r.error) /\ UNCHANGED url
    /\ UNCHANGED <<args, content, input, log>>

\* run_search: webbrowser::open(&url)?, then main returns Ok(())
OpenBrowser ==
    /\ pc = "open"
    /\ \E opened \in BOOLEAN :
         LET r == open_result(opened)
         IN  /\ log' = Append(log, [op |-> "browser", argv |-> <<url.value>>,
                                    status |-> IF opened THEN "ok" ELSE "failed",
                                    out |-> <<>>])
             /\ IF r.ok THEN pc' = "done" /\ UNCHANGED err
                ELSE Fail(r.error)
    /\ UNCHANGED <<args, content, input, url>>

Next ==
    \/ CheckFlags
    \/ RunContextualize
    \/ GetClipboardContent
    \/ NoContent
    \/ Format
    \/ ResolveUrl
    \/ OpenBrowser

Spec == Init /\ [][Next]_vars

---------------------------------------------------------------------------
(* A single call of format_content on arbitrary arguments *)

InitFormat ==
    /\ pc = "format_content"
    /\ content \in Contents
    /\ \E q \in Prompts : args = [NoArgs EXCEPT !.prompt = q]
    /\ input = None
    /\ url = None
    /\ err = None
    /\ log = <<>>

FormatContentCall ==
    /\ pc = "format_content"
    /\ input' = Some(format_content(content, args.prompt))
    /\ pc' = "returned"
    /\ UNCHANGED <<args, content, url, err, log>>

NextFormat == FormatContentCall

FormatSpec == InitFormat /\ [][NextFormat]_vars

---------------------------------------------------------------------------
(* A single call of get_provider_url on arbitrary arguments *)

InitUrl ==
    /\ pc = "get_provider_url"
    /\ \E p \in Providers : args = [NoArgs EXCEPT !.provider = p]
    /\ input \in { Some(q) : q \in Payloads }
    /\ content = <<>>
    /\ url = None
    /\ err = None
    /\ log = <<>>

GetProviderUrlCall ==
    /\ pc = "get_provider_url"
    /\ LET r == get_provider_url(args.provider, input.value)
       IN  IF r.ok THEN url' = Some(r.value) /\ UNCHANGED err
           ELSE err' = Some(r.error) /\ UNCHANGED url
    /\ pc' = "returned"
    /\ UNCHANGED <<args, content, input, log>>

NextUrl == GetProviderUrlCall

UrlSpec == InitUrl /\ [][NextUrl]_vars

---------------------------------------------------------------------------
(* Properties *)

IsPrefix(p, s) == Len(p) <= Len(s) /\ SubSeq(s, 1, Len(p)) = p
IsSuffix(p, s) == Len(p) <= Len(s) /\ SubSeq(s, Len(s) - Len(p) + 1, Len(s)) = p

\* indices of the log entries of one collaborator
OpsOf(op) == { i \in DOMAIN log : log[i].op = op }

BothFlags == args.clipboard /\ args.context.some

ConflictMessage == "--clipboard and --context flags are not compatible"

\* C1: a run with both --clipboard and --context fails on the flag check with
\* the conflicting-flags error, and at no point of the run has any
\* collaborator (clipboard, contextualize, browser) been invoked.
C1_ConflictingFlagsFailFirst ==
    BothFlags =>
        /\ log = <<>>
        /\ pc \in {"main", "error"}
        /\ pc = "error" => err = Some(Error(ConflictMessage, <<>>))
        /\ input = None /\ url = None

C1_Witness ==
    /\ BothFlags
    /\ pc = "error"
    /\ err.some /\ err.value.msg = ConflictMessage
    /\ log = <<>>

\* text that is empty or holds only whitespace (tab, LF, VT, FF, CR, space)
IsBlank(s) == \A i \in DOMAIN s : s[i] \in {9, 10, 11, 12, 13, 32}

\* a clipboard read of this run gave blank text
BlankClipboardRead ==
    \E i \in OpsOf("clipboard") : log[i].status = "ok" /\ IsBlank(log[i].out)

\* C2: when the text read from the clipboard is empty or whitespace-only the
\* run is a hard stop: no payload is built from it (neither the bare query
\* nor a wrapped content), no URL is resolved and the browser is not opened.
C2_BlankClipboardIsHardStop ==
    BlankClipboardRead =>
        /\ input = None
        /\ url = None
        /\ OpsOf("browser") = {}
        /\ pc # "done"

KnownProvider == args.provider \in {"claude", "chatgpt"}

\* C3: a provider other than exactly "claude" or "chatgpt" makes
\* get_provider_url fail with the unsupported-provider error naming it, and the
\* run ends in that error with the browser never opened; for "claude" and
\* "chatgpt" the URL is the provider's prefix followed by the encoded payload.
C3_ProviderDispatch ==
    /\ url.some <=> (KnownProvider /\ pc \in {"open", "done", "error"}
                     /\ input.some /\ ~(pc = "error" /\ OpsOf("browser") = {}))
    /\ url.some =>
         url.value = (IF args.provider = "claude" THEN ClaudeUrl ELSE ChatgptUrl)
                     \o utf8_percent_encode(input.value)
    /\ ~KnownProvider =>
         /\ OpsOf("browser") = {}
         /\ pc \notin {"open", "done"}
         /\ (input.some /\ pc # "run_search") =>
               /\ pc = "error"
               /\ err = Some(Error("Unsupported provider: ", args.provider))

C3_Witness ==
    /\ args.provider = "Claude"
    /\ input.some
    /\ pc = "error"
    /\ err.some /\ err.value.msg = "Unsupported provider: " /\ err.value.arg = "Claude"
    /\ OpsOf("browser") = {}

\* three consecutive backticks somewhere in s
HasTripleBacktick(s) ==
    \E i \in 1..(Len(s) - 2) : s[i] = 96 /\ s[i + 1] = 96 /\ s[i + 2] = 96

TagWrapped(s) == PasteOpen \o s \o PasteClose
FenceWrapped(s) == FenceOpen \o s \o FenceClose

\* C4: format_content wraps the content in "<paste>\n" ... "\n</paste>" exactly
\* when the content contains three backticks, and otherwise in a fence opened
\* by "```paste" and closed by "```"; a content with three backticks is never
\* put in a backtick fence.
C4_WrapperChoice ==
    pc = "returned" =>
        /\ IsPrefix(TagWrapped(content), input.value) <=> HasTripleBacktick(content)
        /\ ~HasTripleBacktick(content) => IsPrefix(FenceWrapped(content), input.value)
        /\ HasTripleBacktick(content) => ~IsPrefix(Backticks3, input.value)

C4_Witness ==
    /\ pc = "returned"
    /\ HasTripleBacktick(content)
    /\ Len(content) > 3
    /\ args.prompt # <<>>
    /\ IsPrefix(TagWrapped(content), input.value)

\* the tokens joined by single spaces, built from the last token backwards
RECURSIVE JoinedBySpaces(_)
JoinedBySpaces(q) ==
    IF Len(q) = 0 THEN <<>>
    ELSE IF Len(q) = 1 THEN q[1]
    ELSE JoinedBySpaces(SubSeq(q, 1, Len(q) - 1)) \o <<32>> \o q[Len(q)]

\* C5: for a non-empty query the output is the wrapped content, one newline,
\* and the tokens joined by single spaces; for an empty query it is the
\* wrapped content alone.
C5_QueryAppended ==
    pc = "returned" =>
        \E w \in {TagWrapped(content), FenceWrapped(content)} :
            input.value = IF Len(args.prompt) > 0
                          THEN w \o <<10>> \o JoinedBySpaces(args.prompt)
                          ELSE w

C5_Witness ==
    /\ pc = "returned"
    /\ Len(args.prompt) = 2
    /\ args.prompt[1] # <<>> /\ args.prompt[2] # <<>>
    /\ content # <<>>
    /\ IsSuffix(<<10>> \o args.prompt[1] \o <<32>> \o args.prompt[2], input.value)

\* the part of a URL after its first "q="
AfterQ(u) ==
    LET at(i) == u[i] = 113 /\ u[i + 1] = 61
        first == CHOOSE i \in 1..(Len(u) - 1) :
                     at(i) /\ \A j \in 1..(i - 1) : ~at(j)
    IN  SubSeq(u, first + 2, Len(u))

IsHexDigit(d) == d \in (48..57) \cup (65..70) \cup (97..102)
HexValue(d) == IF d <= 57 THEN d - 48 ELSE IF d <= 70 THEN d - 55 ELSE d - 87
IsAlnum(b) == (48 <= b /\ b <= 57) \/ (65 <= b /\ b <= 90) \/ (97 <= b /\ b <= 122)

\* e is made of ASCII alphanumerics and %XX escapes only
RECURSIVE OnlyAlnumAndEscapes(_)
OnlyAlnumAndEscapes(e) ==
    \/ e = <<>>
    \/ IsAlnum(e[1]) /\ OnlyAlnumAndEscapes(Tail(e))
    \/ /\ e[1] = 37 /\ Len(e) >= 3 /\ IsHexDigit(e[2]) /\ IsHexDigit(e[3])
       /\ OnlyAlnumAndEscapes(SubSeq(e, 4, Len(e)))

\* percent-decoding: %XX gives the byte XX, any other byte stands for itself
RECURSIVE PercentDecode(_)
PercentDecode(e) ==
    IF e = <<>> THEN <<>>
    ELSE IF e[1] = 37 /\ Len(e) >= 3 /\ IsHexDigit(e[2]) /\ IsHexDigit(e[3])
    THEN <<16 * HexValue(e[2]) + HexValue(e[3])>> \o PercentDecode(SubSeq(e, 4, Len(e)))
    ELSE <<e[1]>> \o PercentDecode(Tail(e))

\* the length an encoding has when exactly the non-alphanumeric bytes are escaped
EscapedLength(p) ==
    Len(p) + 2 * Cardinality({ i \in DOMAIN p : ~IsAlnum(p[i]) })

\* C6: for a supported provider the part of the URL after "q=" holds only
\* ASCII alphanumerics and %XX escapes, escapes every byte of the payload
\* outside the ASCII alphanumerics, and percent-decodes to exactly the payload.
C6_EncodingRoundTrip ==
    (pc = "returned" /\ url.some) =>
        LET e == AfterQ(url.value)
        IN  /\ OnlyAlnumAndEscapes(e)
            /\ Len(e) = EscapedLength(input.value)
            /\ PercentDecode(e) = input.value

\* "%" followed by e-acute gives "%25%C3%A9"
C6_Witness ==
    /\ pc = "returned"
    /\ args.provider = "chatgpt"
    /\ input.value = <<37, 195, 169>>
    /\ url.some
    /\ AfterQ(url.value) = <<37, 50, 53, 37, 67, 51, 37, 65, 57>>

IsAscii(s) == \A i \in DOMAIN s : s[i] < 128

\* C7: with --context (and no --clipboard) the first collaborator invoked is
\* `contextualize cat --output clipboard <paths...>`; the clipboard is read
\* only after it exited with success; when it exits non-zero the run fails
\* with the error carrying its stderr text and nothing is invoked afterwards.
C7_ContextualizeThenClipboard ==
    (args.context.some /\ ~args.clipboard) =>
        /\ pc \in {"main", "acquire"} <=> log = <<>>
        /\ log # <<>> =>
             /\ log[1].op = "contextualize"
             /\ log[1].argv = <<"contextualize", "cat", "--output", "clipboard">>
                              \o args.context.value
        /\ \A i \in OpsOf("clipboard") : i = 2 /\ log[1].status = "ok"
        /\ (log # <<>> /\ log[1].status # "ok") =>
             /\ Len(log) = 1
             /\ pc = "error"
             /\ err.some
             /\ content = <<>> /\ input = None /\ url = None
        /\ (log # <<>> /\ log[1].status = "failed") =>
             /\ err.value.msg = "contextualize command failed: "
             /\ err.value.arg = from_utf8_lossy(log[1].out)
             /\ IsAscii(log[1].out) => err.value.arg = log[1].out

\* the subprocess exits non-zero after writing "err" to stderr
C7_Witness ==
    /\ args.context.some /\ ~args.clipboard
    /\ Len(log) = 1
    /\ log[1].op = "contextualize"
    /\ log[1].status = "failed"
    /\ log[1].out = <<101, 114, 114>>
    /\ pc = "error"
    /\ err.value.arg = <<101, 114, 114>>

\* "</paste>"
ClosingTag == <<60, 47, 112, 97, 115, 116, 101, 62>>

\* C8: the delimiter that closes the chosen wrapper does not occur inside the
\* wrapped content: no "</paste>" in a tag-wrapped content, no three
\* backticks in a fenced content.
C8_DelimiterNotInContent ==
    pc = "returned" =>
        /\ IsPrefix(TagWrapped(content), input.value) => ~Contains(content, ClosingTag)
        /\ IsPrefix(FenceWrapped(content), input.value) => ~HasTripleBacktick(content)

\* C9: a clipboard read goes through the native API, then wl-paste, then
\* xclip: a strategy that fails is followed by a try of the next one, and the
\* read fails only after the last one, xclip, has failed.
C9_FallbackChain ==
    \A i \in OpsOf("clipboard") :
        /\ (log[i].argv = <<"native">> /\ log[i].status # "ok") =>
              /\ i < Len(log)
              /\ log[i + 1].op = "clipboard"
              /\ log[i + 1].argv = <<"wl-paste">>
        /\ (log[i].status # "ok" /\ i = Len(log)) =>
              log[i].argv = <<"xclip", "-selection", "clipboard", "-o">>

\* C10: the run is sequential and stops at the first error: the browser is
\* opened at most once, as the last operation, after validation, acquisition,
\* formatting and provider resolution succeeded; the run succeeds exactly when
\* that launch succeeded; a failed operation is the last one performed.
C10_SequentialFailFast ==
    /\ Cardinality(OpsOf("browser")) <= 1
    /\ \A i \in OpsOf("browser") :
         /\ i = Len(log)
         /\ ~BothFlags
         /\ input.some /\ url.some
         /\ log[i].argv = <<url.value>>
         /\ args.provider \in {"claude", "chatgpt"}
         /\ \A j \in 1..(i - 1) : log[j].status = "ok"
    /\ pc = "done" <=> (log # <<>> /\ log[Len(log)].op = "browser"
                                   /\ log[Len(log)].status = "ok")
    /\ \A i \in DOMAIN log : log[i].status # "ok" => (i = Len(log) /\ pc = "error")
    /\ pc = "error" <=> err.some
    /\ pc \in {"done", "error"} => ~ENABLED Next

\* a run with --context that goes all the way to a launched browser
C10_Witness ==
    /\ pc = "done"
    /\ Len(log) = 3
    /\ log[1].op = "contextualize" /\ log[2].op = "clipboard" /\ log[3].op = "browser"
    /\ err = None

====
